---- MODULE Spec2Model ----
(***************************************************************************)
(* Sun * Moon * Tide calendar: the page layout of cal_draw.py.             *)
(*                                                                         *)
(* Strings are sequences of one-character strings, so that formatting      *)
(* (strftime) and parsing (to_datetime) are real conversions.  A pandas    *)
(* Timestamp is modelled at day resolution as its proleptic Gregorian      *)
(* ordinal (0001-01-01 is day 1); every Timestamp of the program is a      *)
(* midnight.  The curves drawn inside a cell are not modelled: a cell is   *)
(* its grid index, its kind and the date key it was drawn for.             *)
(***************************************************************************)
EXTENDS Integers, Sequences, FiniteSets, TLC

VARIABLES
    tide_year,    \* tide_obj.year, a 4-character string
    missing,      \* per lookup, the date keys it has no entry for
    pc,           \* position in generate_annual_calendar / month_page
    months,       \* the months_in_year generator of the for loop (line 65)
    month,        \* loop variable `month` (line 65)
    days,         \* the days_in_month generator of the for loop (line 174)
    init_day,     \* line 172
    gridnum,      \* line 173
    daily_axes,   \* line 169: handles (positions in fig.axes)
    fig,          \* the figure under composition (line 94)
    caught,       \* the exception bound to `e` in the handler (line 235)
    pdf_out,      \* the PdfPages document (line 60)
    error         \* the exception that left generate_annual_calendar

vars == <<tide_year, missing, pc, months, month, days, init_day, gridnum,
          daily_axes, fig, caught, pdf_out, error>>

None == "None"

-----------------------------------------------------------------------------
(* Bounds of the model: the years a run may be given. *)
FirstYear == 2000
LastYear == 2027
CenturyYear == 1900

Years == {CenturyYear} \cup (FirstYear .. LastYear)

-----------------------------------------------------------------------------
(* Characters and numbers *)

Digits == <<"0", "1", "2", "3", "4", "5", "6", "7", "8", "9">>

DigitVal(c) == (CHOOSE i \in 1..10 : Digits[i] = c) - 1

\* %m and %d: two digits, zero padded
Pad2(n) == <<Digits[((n \div 10) % 10) + 1], Digits[(n % 10) + 1]>>

\* %Y of a year in pandas' Timestamp range: four digits
Pad4(n) == <<Digits[((n \div 1000) % 10) + 1], Digits[((n \div 100) % 10) + 1],
             Digits[((n \div 10) % 10) + 1], Digits[(n % 10) + 1]>>

ParseInt(s) ==
    IF Len(s) = 4
    THEN 1000 * DigitVal(s[1]) + 100 * DigitVal(s[2]) + 10 * DigitVal(s[3])
         + DigitVal(s[4])
    ELSE 10 * DigitVal(s[1]) + DigitVal(s[2])

-----------------------------------------------------------------------------
(* calendar module *)

isleap(y) == (y % 4 = 0) /\ ((y % 100 # 0) \/ (y % 400 = 0))

mdays == <<31, 28, 31, 30, 31, 30, 31, 31, 30, 31, 30, 31>>

\* calendar.monthrange(year, month)[1]
monthrange_ndays(y, m) == mdays[m] + (IF m = 2 /\ isleap(y) THEN 1 ELSE 0)

-----------------------------------------------------------------------------
(* Timestamps: ordinal <-> (year, month, day) *)

DaysBeforeYear(y) ==
    (y - 1) * 365 + ((y - 1) \div 4) - ((y - 1) \div 100) + ((y - 1) \div 400)

\* the days of a common year before each month
days_before == <<0, 31, 59, 90, 120, 151, 181, 212, 243, 273, 304, 334>>

DaysBeforeMonth(y, m) == days_before[m] + (IF m > 2 /\ isleap(y) THEN 1 ELSE 0)

Timestamp(y, m, d) == DaysBeforeYear(y) + DaysBeforeMonth(y, m) + d

ts_year(t) ==
    LET n0   == t - 1
        n400 == n0 \div 146097
        r400 == n0 % 146097
        n100 == r400 \div 36524
        r100 == r400 % 36524
        n4   == r100 \div 1461
        r4   == r100 % 1461
        n1   == r4 \div 365
        y    == n400 * 400 + n100 * 100 + n4 * 4 + n1 + 1
    IN IF n1 = 4 \/ n100 = 4 THEN y - 1 ELSE y

ts_month(t) ==
    LET y == ts_year(t)
        n == t - DaysBeforeYear(y)     \* 1-based day of the year
        e == ((n + 30) \div 31)        \* the month, or one less
    IN IF e < 12 /\ n > DaysBeforeMonth(y, e + 1) THEN e + 1 ELSE e

ts_day(t) ==
    LET y == ts_year(t) IN t - DaysBeforeYear(y) - DaysBeforeMonth(y, ts_month(t))

\* Timestamp.dayofweek: Monday = 0 ... Sunday = 6 (0001-01-01 is a Monday)
dayofweek(t) == (t + 6) % 7

\* pd.to_datetime of 'YYYY-MM' or 'YYYY-MM-DD'
to_datetime(s) ==
    Timestamp(ParseInt(SubSeq(s, 1, 4)), ParseInt(SubSeq(s, 6, 7)),
              IF Len(s) >= 10 THEN ParseInt(SubSeq(s, 9, 10)) ELSE 1)

\* strftime('%Y-%m-%d')
strftime_Ymd(t) ==
    Pad4(ts_year(t)) \o <<"-">> \o Pad2(ts_month(t)) \o <<"-">> \o Pad2(ts_day(t))

\* strftime('%Y-%m')
strftime_Ym(t) == Pad4(ts_year(t)) \o <<"-">> \o Pad2(ts_month(t))

month_name == <<"January", "February", "March", "April", "May", "June", "July",
                "August", "September", "October", "November", "December">>

\* strftime('%B')
strftime_B(t) == month_name[ts_month(t)]

\* t + pd.DateOffset(n): n calendar days
AddDays(t, n) == t + n

\* t + pd.DateOffset(months=n): the same day n months on, clipped to the
\* length of the target month
AddMonths(t, n) ==
    LET k  == ts_year(t) * 12 + (ts_month(t) - 1) + n
        y  == k \div 12
        m  == (k % 12) + 1
        nd == monthrange_ndays(y, m)
        d  == IF ts_day(t) > nd THEN nd ELSE ts_day(t)
    IN Timestamp(y, m, d)

-----------------------------------------------------------------------------
(* Generators.  A generator object is its argument, where it is suspended   *)
(* and its locals; next() runs it to the following yield or to its end.     *)

StopIteration == <<"StopIteration">>

\* days_in_month(year_month_string): the generator object, not yet started
days_in_month(year_month_string) ==
    [arg |-> year_month_string, at |-> "new", current_date |-> 0, end_date |-> 0]

\* the step a day generator takes from one day to the next (line 32)
DayStep(t) == AddDays(t, 1)

\* variant: the loop runs through end_date itself
DaysContinue_mut(current_date, end_date) == current_date <= end_date

\* line 30: the loop condition of days_in_month
DaysContinue(current_date, end_date) == current_date < end_date

\* next() of a days_in_month generator
days_next(g) ==
    LET start_date == to_datetime(g.arg)
        ndays      == monthrange_ndays(ts_year(start_date), ts_month(start_date))
        end_date   == IF g.at = "new" THEN AddDays(start_date, ndays) ELSE g.end_date
        current    == IF g.at = "new" THEN start_date ELSE DayStep(g.current_date)
    IN IF g.at = "done" THEN [gen |-> g, value |-> StopIteration]
       ELSE IF DaysContinue(current, end_date)
       THEN [gen   |-> [g EXCEPT !.at = "yielded", !.current_date = current,
                                 !.end_date = end_date],
             value |-> strftime_Ymd(current)]
       ELSE [gen   |-> [g EXCEPT !.at = "done", !.current_date = current,
                                 !.end_date = end_date],
             value |-> StopIteration]

\* months_in_year(year_string): the generator object, not yet started
months_in_year(year_string) ==
    [arg |-> year_string, at |-> "new", current_date |-> 0, end_date |-> 0]

\* the step a month generator takes from one month to the next (line 44)
MonthStep(t) == AddMonths(t, 1)

\* variant: the loop runs through end_date itself
MonthsContinue_mut(current_date, end_date) == current_date <= end_date

\* line 42: the loop condition of months_in_year
MonthsContinue(current_date, end_date) == current_date < end_date

\* next() of a months_in_year generator
months_next(g) ==
    LET start_date == to_datetime(g.arg \o <<"-", "0", "1">>)
        end_date   == IF g.at = "new" THEN AddMonths(start_date, 12) ELSE g.end_date
        current    == IF g.at = "new" THEN start_date ELSE MonthStep(g.current_date)
    IN IF g.at = "done" THEN [gen |-> g, value |-> StopIteration]
       ELSE IF MonthsContinue(current, end_date)
       THEN [gen   |-> [g EXCEPT !.at = "yielded", !.current_date = current,
                                 !.end_date = end_date],
             value |-> strftime_Ym(current)]
       ELSE [gen   |-> [g EXCEPT !.at = "done", !.current_date = current,
                                 !.end_date = end_date],
             value |-> StopIteration]

NoGen == [arg |-> <<>>, at |-> "none", current_date |-> 0, end_date |-> 0]

-----------------------------------------------------------------------------
(* The grid of a month page *)

\* gridspec.GridSpec(12, 7)
\* variant: a grid for five calendar weeks
GridRows_mut == 2 * 5
GridRows == 12
GridCols == 7
GridCells == GridRows * GridCols

\* the lower cell of a pair is one grid row below the upper one (lines 155, 199)
TideOffset == 7

day_names == <<"Sunday", "Monday", "Tuesday", "Wednesday", "Thursday",
               "Friday", "Saturday">>

\* variant: the Monday = 0 weekday taken as the column
InitDay_mut(month_string) ==
    dayofweek(to_datetime(month_string \o <<"-", "0", "1">>))

\* line 172: the weekday of the first of the month, Sunday = 0
InitDay(month_string) ==
    (dayofweek(to_datetime(month_string \o <<"-", "0", "1">>)) + 1) % 7

\* variant: the skip after a Saturday is one grid row
Advance_week(g, day) ==
    IF dayofweek(to_datetime(day)) = 5 THEN g + 7 ELSE g + 1

\* variant: the skip is taken after day-of-week 6 (Sunday under Monday = 0)
Advance_sunday(g, day) ==
    IF dayofweek(to_datetime(day)) = 6 THEN g + 8 ELSE g + 1

\* lines 177-180: the cursor after plotting `day` at gridnum g
Advance(g, day) ==
    IF dayofweek(to_datetime(day)) = 5 THEN g + 8 ELSE g + 1

\* a new, empty figure (line 94)
NewFig == [axes |-> <<>>, texts |-> <<>>, titles |-> <<>>, logo |-> FALSE]

\* plt.subplot(gs[i]) on figure f for the cell `what`: the figure with the new axes
Subplot(f, i, kind, date) ==
    [f EXCEPT !.axes = Append(@, [index |-> i, kind |-> kind, date |-> date])]

\* plt.text(..., s, transform = ax.transAxes)
AxText(f, s, ax) == [f EXCEPT !.texts = Append(@, [s |-> s, ax |-> ax])]

-----------------------------------------------------------------------------
(* The three contexts: which date keys each per-day lookup holds *)

Lookups == {"sun", "moon", "tide", "phase"}

\* variant: the tide lookup answers for every date
Has_mut(lookup, date) == lookup = "tide" \/ date \notin missing[lookup]

\* lines 113-115 and 150: the lookup has an entry for the date
Has(lookup, date) == date \notin missing[lookup]

\* the first of the lookups of _plot_a_date that fails for `date`, in the order
\* of lines 113, 114, 115 (before anything is drawn) and 150 (after the upper
\* cell is drawn); None when all succeed
FirstKeyError(date) ==
    IF ~Has("sun", date) THEN "sun"
    ELSE IF ~Has("moon", date) THEN "moon"
    ELSE IF ~Has("tide", date) THEN "tide"
    ELSE IF ~Has("phase", date) THEN "phase"
    ELSE None

-----------------------------------------------------------------------------
(* Exceptions and the output document *)

NoError == [type |-> "None", arg |-> <<>>]

KeyError(date) == [type |-> "KeyError", arg |-> date]

IndexError == [type |-> "IndexError", arg |-> <<>>]

\* what can go wrong in the try block of lines 231-234
LogoErrors == {[type |-> "IOError", arg |-> <<>>],
               [type |-> "AttributeError", arg |-> <<>>]}

\* line 236: 'Could not load logo image. Error: ' + e, the operand of print.
\* str + exception is not defined: the concatenation raises before print runs.
LogoDiagnostic(e) == [raised |-> TRUE,
                      exc |-> [type |-> "TypeError", arg |-> <<>>]]

\* PdfPages(file_name)
NewPdf == [open |-> TRUE, pages |-> <<>>, infodict |-> <<>>]

\* monthfig.savefig(pdf_out, format='pdf'): the page the figure renders to
Page(f) == [titles |-> f.titles, cells |-> Len(f.axes), logo |-> f.logo]

\* variant: each page replaces the document
SaveFig_mut(pdf, f) == [pdf EXCEPT !.pages = <<Page(f)>>]

\* line 68: the figure's page goes to the end of the document
SaveFig(pdf, f) == [pdf EXCEPT !.pages = Append(@, Page(f))]

\* variant: the name of column i goes to the i-th date, offset ignored
Headers_mut(f, first, axs) ==
    LET H[i \in (first - 1)..6] ==
          IF i < first THEN f
          ELSE AxText(H[i - 1], day_names[i + 1], axs[i + 1])
    IN H[6]

\* lines 192-196: the weekday names above the first dates
Headers(f, first, axs) ==
    LET H[i \in (first - 1)..6] ==
          IF i < first THEN f
          ELSE AxText(H[i - 1], day_names[i + 1], axs[i - first + 1])
    IN H[6]

\* lines 197-220: the blank cell pairs of the top row, each with its name
BlankBoxes(f, first) ==
    LET B[i \in -1..(first - 1)] ==
          IF i < 0 THEN f
          ELSE LET g == Subplot(Subplot(B[i - 1], i, "blank_upper", <<>>),
                                i + TideOffset, "blank_lower", <<>>)
               IN AxText(g, day_names[i + 1], Len(g.axes) - 1)
    IN B[first - 1]

\* lines 222-229
Titles(f, month_string) ==
    [f EXCEPT !.titles = <<strftime_B(to_datetime(month_string)), tide_year,
                           "station_name, state", "Sun * Moon * Tide">>]

-----------------------------------------------------------------------------
(* Initial states: a year and, for each lookup, the keys it lacks *)

MissingDays(y) == {Pad4(y) \o <<"-">> \o Pad2(md[1]) \o <<"-">> \o Pad2(md[2]) :
                     md \in {<<1, 1>>, <<1, 18>>, <<2, 28>>, <<3, 31>>}}

AllPresent == [l \in Lookups |-> {}]

MissingConfigs(y) ==
    {AllPresent}
    \cup {[l \in Lookups |-> IF l = k THEN {d} ELSE {}] :
            k \in Lookups, d \in MissingDays(y)}
    \cup {[l \in Lookups |-> IF l = k THEN MissingDays(y) ELSE {}] : k \in Lookups}
    \cup {[l \in Lookups |-> MissingDays(y)]}

Init ==
    /\ \E y \in Years :
         /\ tide_year = Pad4(y)
         /\ missing \in MissingConfigs(y)
    /\ pc = "start"
    /\ months = NoGen
    /\ month = <<>>
    /\ days = NoGen
    /\ init_day = 0
    /\ gridnum = 0
    /\ daily_axes = <<>>
    /\ fig = NewFig
    /\ caught = NoError
    /\ pdf_out = [open |-> FALSE, pages |-> <<>>, infodict |-> <<>>]
    /\ error = NoError

-----------------------------------------------------------------------------
(* generate_annual_calendar and month_page *)

\* an exception leaves generate_annual_calendar; the with statement closes
\* the document on the way out
Raise(e) ==
    /\ pc' = "aborted"
    /\ error' = e
    /\ pdf_out' = [pdf_out EXCEPT !.open = FALSE]

\* line 60: with PdfPages(file_name) as pdf_out; line 65: the loop's iterator
OpenPdf ==
    /\ pc = "start"
    /\ pdf_out' = NewPdf
    /\ months' = months_in_year(tide_year)
    /\ pc' = "for_month"
    /\ UNCHANGED <<tide_year, missing, month, days, init_day, gridnum,
                   daily_axes, fig, caught, error>>

\* line 65: the loop takes the next month; line 66 calls month_page, which
\* runs lines 94-100 and 168-174 up to the loop over the days
NextMonth ==
    /\ pc = "for_month"
    /\ LET r == months_next(months) IN
         /\ r.value # StopIteration
         /\ months' = r.gen
         /\ month' = r.value
         /\ fig' = NewFig
         /\ daily_axes' = <<>>
         /\ init_day' = InitDay(r.value)
         /\ gridnum' = InitDay(r.value)
         /\ days' = days_in_month(r.value)
    /\ pc' = "for_day"
    /\ UNCHANGED <<tide_year, missing, caught, pdf_out, error>>

\* line 174: the loop takes the next day; lines 175-180 plot it (lines
\* 113-165) and advance the cursor
PlotDate ==
    /\ pc = "for_day"
    /\ LET r    == days_next(days)
           date == r.value
           k    == FirstKeyError(date)
           ax1  == Subplot(fig, gridnum, "sunmoon", date)
           ax2  == Subplot(ax1, gridnum + TideOffset, "tide", date)
       IN
         /\ r.value # StopIteration
         /\ days' = r.gen
         /\ IF k \in {"sun", "moon", "tide"}
            THEN Raise(KeyError(date))
                 /\ UNCHANGED <<fig, daily_axes, gridnum>>
            ELSE IF gridnum >= GridCells
            THEN Raise(IndexError)
                 /\ UNCHANGED <<fig, daily_axes, gridnum>>
            ELSE IF k = "phase"
            THEN Raise(KeyError(date))
                 /\ fig' = ax1
                 /\ UNCHANGED <<daily_axes, gridnum>>
            ELSE IF gridnum + TideOffset >= GridCells
            THEN Raise(IndexError)
                 /\ fig' = ax1
                 /\ UNCHANGED <<daily_axes, gridnum>>
            ELSE /\ fig' = ax2
                 /\ daily_axes' = Append(daily_axes, Len(ax1.axes))
                 /\ gridnum' = Advance(gridnum, date)
                 /\ UNCHANGED <<pc, error, pdf_out>>
    /\ UNCHANGED <<tide_year, missing, months, month, init_day, caught>>

\* line 174: the days are exhausted; lines 182-229 add the weekday names,
\* the blank boxes and the titles
Annotate ==
    /\ pc = "for_day"
    /\ LET r == days_next(days) IN
         /\ r.value = StopIteration
         /\ days' = r.gen
         /\ IF Len(daily_axes) < 7 - init_day
            THEN Raise(IndexError) /\ UNCHANGED fig
            ELSE /\ fig' = Titles(BlankBoxes(Headers(fig, init_day, daily_axes),
                                             init_day), month)
                 /\ pc' = "logo"
                 /\ UNCHANGED <<error, pdf_out>>
    /\ UNCHANGED <<tide_year, missing, months, month, init_day, gridnum,
                   daily_axes, caught>>

\* lines 231-234 succeed: the logo is on the page
LogoLoaded ==
    /\ pc = "logo"
    /\ fig' = [fig EXCEPT !.logo = TRUE]
    /\ pc' = "return"
    /\ UNCHANGED <<tide_year, missing, months, month, days, init_day, gridnum,
                   daily_axes, caught, pdf_out, error>>

\* lines 231-234 raise: line 235 catches the exception as e
LogoFailed ==
    /\ pc = "logo"
    /\ \E e \in LogoErrors : caught' = e
    /\ pc' = "except"
    /\ UNCHANGED <<tide_year, missing, months, month, days, init_day, gridnum,
                   daily_axes, fig, pdf_out, error>>

\* line 236: the handler builds its diagnostic and prints it
LogoHandler ==
    /\ pc = "except"
    /\ LET d == LogoDiagnostic(caught) IN
         IF d.raised
         THEN Raise(d.exc)
         ELSE /\ pc' = "return"
              /\ UNCHANGED <<error, pdf_out>>
    /\ UNCHANGED <<tide_year, missing, months, month, days, init_day, gridnum,
                   daily_axes, fig, caught>>

\* line 238 returns the figure; lines 67-69 save it as the next page
SavePage ==
    /\ pc = "return"
    /\ pdf_out' = SaveFig(pdf_out, fig)
    /\ pc' = "for_month"
    /\ UNCHANGED <<tide_year, missing, months, month, days, init_day, gridnum,
                   daily_axes, fig, caught, error>>

\* line 65: the months are exhausted; lines 73-77 set the metadata and the
\* with statement closes the document
Finish ==
    /\ pc = "for_month"
    /\ LET r == months_next(months) IN
         /\ r.value = StopIteration
         /\ months' = r.gen
    /\ pdf_out' = [pdf_out EXCEPT
                     !.infodict = <<<<"Title", <<"Sun * Moon * Tide ", tide_year,
                                                 " Calendar">>>>,
                                    <<"Author", "Sara Hendrix, CruzViz">>,
                                    <<"Subject", "station_name, state">>,
                                    <<"CreationDate", "now">>>>,
                     !.open = FALSE]
    /\ pc' = "done"
    /\ UNCHANGED <<tide_year, missing, month, days, init_day, gridnum,
                   daily_axes, fig, caught, error>>

Next ==
    \/ OpenPdf
    \/ NextMonth
    \/ PlotDate
    \/ Annotate
    \/ LogoLoaded
    \/ LogoFailed
    \/ LogoHandler
    \/ SavePage
    \/ Finish

Spec == Init /\ [][Next]_vars

-----------------------------------------------------------------------------
(* The calendar the claims are stated against, written out independently    *)
(* of the conversions above.                                                *)

DayText == <<<<"0", "1">>, <<"0", "2">>, <<"0", "3">>, <<"0", "4">>,
             <<"0", "5">>, <<"0", "6">>, <<"0", "7">>, <<"0", "8">>,
             <<"0", "9">>, <<"1", "0">>, <<"1", "1">>, <<"1", "2">>,
             <<"1", "3">>, <<"1", "4">>, <<"1", "5">>, <<"1", "6">>,
             <<"1", "7">>, <<"1", "8">>, <<"1", "9">>, <<"2", "0">>,
             <<"2", "1">>, <<"2", "2">>, <<"2", "3">>, <<"2", "4">>,
             <<"2", "5">>, <<"2", "6">>, <<"2", "7">>, <<"2", "8">>,
             <<"2", "9">>, <<"3", "0">>, <<"3", "1">>>>

MonthText == <<<<"0", "1">>, <<"0", "2">>, <<"0", "3">>, <<"0", "4">>,
               <<"0", "5">>, <<"0", "6">>, <<"0", "7">>, <<"0", "8">>,
               <<"0", "9">>, <<"1", "0">>, <<"1", "1">>, <<"1", "2">>>>

\* the number of days of month m of year y
RefMonthLength(y, m) ==
    IF m \in {4, 6, 9, 11} THEN 30
    ELSE IF m # 2 THEN 31
    ELSE IF y % 400 = 0 THEN 29
    ELSE IF y % 100 = 0 THEN 28
    ELSE IF y % 4 = 0 THEN 29
    ELSE 28

\* the weekday of year y, month m, day d, Sunday = 0 (Sakamoto's method)
RefWeekday(y, m, d) ==
    LET t  == <<0, 3, 2, 5, 0, 3, 5, 1, 4, 6, 2, 4>>
        yy == IF m < 3 THEN y - 1 ELSE y
    IN (yy + (yy \div 4) - (yy \div 100) + (yy \div 400) + t[m] + d) % 7

\* 'YYYY-MM' of the k-th month and 'YYYY-MM-DD' of its i-th day, for the
\* year of the run
RefMonth(k) == tide_year \o <<"-">> \o MonthText[k]
RefDate(k, i) == RefMonth(k) \o <<"-">> \o DayText[i]

\* the year and the month under composition, as numbers
CurYear == ParseInt(tide_year)
CurMonth == ParseInt(SubSeq(month, 6, 7))

\* month_page is between its first line and its return
InMonthPage == pc \in {"for_day", "logo", "except", "return"}

\* the loop over the days has ended: the page is composed
Composed == pc \in {"logo", "except", "return"}

\* the dates drawn so far on the page, in the order they were drawn
DatesDrawn == [i \in 1..Len(daily_axes) |-> fig.axes[daily_axes[i]].date]

-----------------------------------------------------------------------------
\* C1: for the month under composition, days_in_month yields the dates
\* YYYY-MM-01, YYYY-MM-02, ... of that month in order, one per call, with no
\* gap or repeat and none of another month; when it ends it has yielded
\* exactly the calendar's number of days for the month.
C1_DaysInMonth ==
    (pc # "start" /\ month # <<>>) =>
       /\ Len(daily_axes) <= RefMonthLength(CurYear, CurMonth)
       /\ \A i \in 1..Len(daily_axes) : DatesDrawn[i] = RefDate(CurMonth, i)
       /\ days.at = "yielded" =>
            /\ days.current_date - to_datetime(month) + 1
                 <= RefMonthLength(CurYear, CurMonth)
            /\ strftime_Ymd(days.current_date)
                 = RefDate(CurMonth, days.current_date - to_datetime(month) + 1)
       /\ days.at = "done" => Len(daily_axes) = RefMonthLength(CurYear, CurMonth)

\* a leap February has been drawn to its 29th day and the generator has ended
C1_Witness ==
    /\ pc = "logo"
    /\ days.at = "done"
    /\ CurMonth = 2
    /\ Len(daily_axes) = 29
    /\ DatesDrawn[29] = RefDate(2, 29)

\* C8: months_in_year yields 'Y-01' ... 'Y-12' in order, one per pass of the
\* loop, and ends after the twelfth.
C8_MonthsInYear ==
    /\ Len(pdf_out.pages) <= 12
    /\ months.at = "yielded" =>
         /\ InMonthPage \/ pc = "aborted" =>
              /\ Len(pdf_out.pages) < 12
              /\ month = RefMonth(Len(pdf_out.pages) + 1)
         /\ pc = "for_month" => month = RefMonth(Len(pdf_out.pages))
    /\ months.at = "done" =>
         /\ pc = "done"
         /\ Len(pdf_out.pages) = 12
         /\ month = RefMonth(12)

\* the generator has ended after December
C8_Witness ==
    /\ months.at = "done"
    /\ month = RefMonth(12)
    /\ Len(pdf_out.pages) = 12

-----------------------------------------------------------------------------
\* the page the k-th month of the year renders to, but for its logo
RefPageTitles(k) == <<month_name[k], tide_year>>
RefPageCells(k) == 2 * (RefMonthLength(CurYear, k) + RefWeekday(CurYear, k, 1))

InfoKeys == [i \in 1..Len(pdf_out.infodict) |-> pdf_out.infodict[i][1]]

\* C6: the document holds the pages of January, February, ... in that
\* order, each once; the page of a month is in the document before the next
\* month is composed; a run that returns has appended exactly 12 pages; and
\* the metadata is set only once all 12 pages are in the document.
C6_PagesInOrder ==
    /\ Len(pdf_out.pages) <= 12
    /\ \A k \in 1..Len(pdf_out.pages) :
         /\ SubSeq(pdf_out.pages[k].titles, 1, 2) = RefPageTitles(k)
         /\ pdf_out.pages[k].cells = RefPageCells(k)
    /\ InMonthPage => Len(pdf_out.pages) = CurMonth - 1
    /\ (pc = "for_month" /\ month # <<>>) => Len(pdf_out.pages) = CurMonth
    /\ pdf_out.infodict # <<>> =>
         /\ Len(pdf_out.pages) = 12
         /\ InfoKeys = <<"Title", "Author", "Subject", "CreationDate">>
    /\ pc = "done" =>
         /\ Len(pdf_out.pages) = 12
         /\ pdf_out.infodict # <<>>
         /\ ~pdf_out.open

\* the run has returned with the twelve pages and the metadata
C6_Witness ==
    /\ pc = "done"
    /\ Len(pdf_out.pages) = 12
    /\ pdf_out.pages[12].titles[1] = "December"
    /\ pdf_out.infodict # <<>>

-----------------------------------------------------------------------------
\* the lookups the claim names
DayLookups == {"sun", "moon", "tide"}

\* the days of the k-th month that lookup l has no entry for
MissingIn(l, k) ==
    {i \in 1..RefMonthLength(CurYear, k) : RefDate(k, i) \in missing[l]}

\* C4: a month in which the sun, moon or tide lookup lacks a date is never
\* composed past that date: month_page returns no page for it, the KeyError
\* names the first missing date of the month, it leaves
\* generate_annual_calendar, and the document holds only the pages of the
\* months before.
C4_MissingDateAborts ==
    /\ \A k \in 1..Len(pdf_out.pages) : \A l \in DayLookups : MissingIn(l, k) = {}
    /\ InMonthPage =>
         \A l \in DayLookups : \A i \in MissingIn(l, CurMonth) : Len(daily_axes) < i
    /\ Composed => \A l \in DayLookups : MissingIn(l, CurMonth) = {}
    /\ error.type = "KeyError" =>
         /\ pc = "aborted"
         /\ ~pdf_out.open
         /\ Len(pdf_out.pages) = CurMonth - 1
         /\ error.arg = RefDate(CurMonth, Len(daily_axes) + 1)
         /\ \E l \in Lookups : error.arg \in missing[l]
         /\ \A l \in DayLookups : \A i \in MissingIn(l, CurMonth) :
              Len(daily_axes) < i
    /\ pc = "done" => \A k \in 1..12 : \A l \in DayLookups : MissingIn(l, k) = {}

\* February is aborted at the 28th, which the tide lookup lacks, with
\* January's page in the document
C4_Witness ==
    /\ pc = "aborted"
    /\ error = KeyError(RefDate(2, 28))
    /\ error.arg \in missing["tide"]
    /\ error.arg \notin missing["sun"]
    /\ Len(pdf_out.pages) = 1

-----------------------------------------------------------------------------
\* C3: when loading the logo fails, the handler reports it and month_page
\* goes on to return the composed page, which is then saved.
C3_LogoFailureNonFatal ==
    [][pc = "except" => (pc' = "return" /\ error' = NoError /\ fig' = fig)]_vars

-----------------------------------------------------------------------------
(* The cells of the page under composition *)

\* the grid index of the upper (illumination) cell of the i-th date drawn,
\* and of the cell drawn right after it (its tide cell)
IllumIndex(i) == fig.axes[daily_axes[i]].index
TideIndex(i) == fig.axes[daily_axes[i] + 1].index

\* the axes of the page of one kind
AxesOfKind(kind) == {j \in 1..Len(fig.axes) : fig.axes[j].kind = kind}
DayAxes == AxesOfKind("sunmoon") \cup AxesOfKind("tide")
IndicesOf(js) == {fig.axes[j].index : j \in js}

\* the i-th day of the month under composition is a Saturday
IsSaturday(i) == RefWeekday(CurYear, CurMonth, i) = 6

\* C2: the first date is drawn at init_day; each later date is drawn 8 cells
\* after the one before it when that one was a Saturday and 1 cell after it
\* otherwise, and the cursor stands that far after the last date drawn; no
\* two day cells (illumination cells, or tide cells 7 further on) share a
\* grid index.
C2_CursorNoCollision ==
    (InMonthPage \/ pc = "aborted") =>
       LET n == Len(daily_axes) IN
       /\ n = 0 /\ pc # "aborted" => gridnum = init_day
       /\ n > 0 => IllumIndex(1) = init_day
       /\ \A i \in 1..n :
            /\ TideIndex(i) = IllumIndex(i) + 7
            /\ fig.axes[daily_axes[i] + 1].kind = "tide"
            /\ (IF i < n THEN IllumIndex(i + 1) ELSE gridnum)
                 = IllumIndex(i) + (IF IsSaturday(i) THEN 8 ELSE 1)
       /\ Cardinality(IndicesOf(DayAxes)) = Cardinality(DayAxes)

\* a Saturday has just been drawn in the last column and the cursor has
\* skipped the tide row below it
C2_Witness ==
    /\ pc = "for_day"
    /\ Len(daily_axes) > 7
    /\ IsSaturday(Len(daily_axes))
    /\ gridnum = IllumIndex(Len(daily_axes)) + 8

\* C7: every grid index a page uses, for a day cell or a blank cell, upper
\* or lower, lies in 0..83, and no cell is ever asked for outside the grid.
C7_InsideGrid ==
    /\ \A j \in 1..Len(fig.axes) : fig.axes[j].index \in 0..83
    /\ error.type # "IndexError"

\* a month of six calendar rows: its last tide cell is in the twelfth grid row
C7_Witness ==
    /\ pc = "return"
    /\ init_day = 6
    /\ Len(daily_axes) = 31
    /\ TideIndex(31) = 78

\* C9: the i-th date of the month has its illumination cell at r*14 + c and
\* its tide cell at r*14 + 7 + c, c its weekday with Sunday = 0 and r its
\* week row in the month; and the cursor skips 8 after a date exactly when
\* that date sits in column 6.
C9_RowColumn ==
    (InMonthPage \/ pc = "aborted") =>
       LET n == Len(daily_axes) IN
       /\ \A i \in 1..n :
            LET c == RefWeekday(CurYear, CurMonth, i)
                r == (RefWeekday(CurYear, CurMonth, 1) + i - 1) \div 7
            IN /\ IllumIndex(i) = r * 14 + c
               /\ TideIndex(i) = r * 14 + 7 + c
       /\ n > 0 =>
            /\ gridnum - IllumIndex(n) \in {1, 8}
            /\ (gridnum - IllumIndex(n) = 8) <=> (IllumIndex(n) % 7 = 6)

\* the 31st of a month that began on a Saturday: row 5, column 1
C9_Witness ==
    /\ Composed
    /\ RefWeekday(CurYear, CurMonth, 1) = 6
    /\ Len(daily_axes) = 31
    /\ IllumIndex(31) = 71

-----------------------------------------------------------------------------
\* the axes of the page of one kind drawn for one date
CellsOf(kind, date) == {j \in AxesOfKind(kind) : fig.axes[j].date = date}

TheIndex(js) == fig.axes[CHOOSE j \in js : TRUE].index

\* C5: a composed page has, for each day of the month, exactly one
\* illumination cell and one tide cell 7 further on, and no other day cell;
\* it has exactly init_day blank pairs, at 0..init_day-1 and 7 further on,
\* none at the index of a day cell; the first date is at init_day, the
\* weekday of the first of the month with Sunday = 0.  July 2015 has 31 day
\* pairs and 3 blank pairs.
C5_CellPairs ==
    Composed =>
       LET len == RefMonthLength(CurYear, CurMonth) IN
       /\ init_day = RefWeekday(CurYear, CurMonth, 1)
       /\ Cardinality(AxesOfKind("sunmoon")) = len
       /\ Cardinality(AxesOfKind("tide")) = len
       /\ \A i \in 1..len :
            LET up == CellsOf("sunmoon", RefDate(CurMonth, i))
                lo == CellsOf("tide", RefDate(CurMonth, i))
            IN /\ Cardinality(up) = 1
               /\ Cardinality(lo) = 1
               /\ TheIndex(lo) = TheIndex(up) + 7
       /\ TheIndex(CellsOf("sunmoon", RefDate(CurMonth, 1))) = init_day
       /\ Cardinality(AxesOfKind("blank_upper")) = init_day
       /\ Cardinality(AxesOfKind("blank_lower")) = init_day
       /\ IndicesOf(AxesOfKind("blank_upper")) = 0..(init_day - 1)
       /\ IndicesOf(AxesOfKind("blank_lower")) = 7..(init_day + 6)
       /\ IndicesOf(AxesOfKind("blank_upper") \cup AxesOfKind("blank_lower"))
            \cap IndicesOf(DayAxes) = {}
       /\ Len(fig.axes) = 2 * (len + init_day)
       /\ (tide_year = <<"2", "0", "1", "5">> /\ CurMonth = 7) =>
            /\ Cardinality(AxesOfKind("sunmoon")) = 31
            /\ Cardinality(AxesOfKind("blank_upper")) = 3

\* a month that begins on a Saturday is composed, with its six blank pairs
C5_Witness ==
    /\ pc = "return"
    /\ RefWeekday(CurYear, CurMonth, 1) = 6
    /\ Cardinality(AxesOfKind("blank_upper")) = 6
    /\ TheIndex(CellsOf("sunmoon", RefDate(CurMonth, 1))) = 6

\* the texts of the page that carry weekday name number i (Sunday = 0)
NameTexts(i) == {t \in 1..Len(fig.texts) : fig.texts[t].s = day_names[i + 1]}

\* C10: a composed page carries each weekday name exactly once, on the cell
\* of the top grid row in its own column: the blank cell there for a column
\* before init_day, and otherwise the illumination cell of the date that
\* falls in that column in the first week.
C10_WeekdayNames ==
    Composed =>
       /\ Len(fig.texts) = 7
       /\ \A i \in 0..6 :
            /\ Cardinality(NameTexts(i)) = 1
            /\ LET a == fig.axes[fig.texts[CHOOSE t \in NameTexts(i) : TRUE].ax]
               IN /\ a.index = i
                  /\ i < init_day => a.kind = "blank_upper"
                  /\ i >= init_day =>
                       /\ a.kind = "sunmoon"
                       /\ a.date = RefDate(CurMonth, i - init_day + 1)
                       /\ RefWeekday(CurYear, CurMonth, i - init_day + 1) = i

\* a month that begins on a Wednesday: Wednesday is on the cell of the 1st
\* and Tuesday on the last blank cell
C10_Witness ==
    /\ pc = "return"
    /\ init_day = 3
    /\ \E t \in NameTexts(3) : fig.axes[fig.texts[t].ax].date = RefDate(CurMonth, 1)
    /\ \E t \in NameTexts(2) : fig.axes[fig.texts[t].ax].kind = "blank_upper"

====
